---- MODULE Spec2Model ----
(***************************************************************************)
(* The CPU resource advisor of katalyst-core's sysadvisor                  *)
(* (pkg/agent/sysadvisor/plugin/qosaware/resource/cpu/advisor.go): the     *)
(* Run loop, the update cycle, the assignment of containers to QoS         *)
(* regions, the assembly of region entries and of the provision plan, and  *)
(* GetHeadroom.                                                            *)
(*                                                                         *)
(* Region names are "<type>-<uuid>" in the code; here a name is the        *)
(* number the uuid generator hands out and the type is a field of the      *)
(* region.  MetaCache, the QoS regions and their canonical policies are    *)
(* collaborators whose code is not part of the advisor: they are modelled  *)
(* from the interface the advisor uses and from the design document.       *)
(***************************************************************************)
EXTENDS Integers, FiniteSets, Sequences, TLC

\* ------------------------------------------------------------------ bounds
\* uuid.NewUUID() never repeats; the model has the names 1..MaxUUID and
\* hands out one that nothing in the state refers to.
MaxUUID == 4
\* The clock advances TickSeconds at a time and stops at MaxTime seconds.
MaxTime == 30
TickSeconds == 15

\* --------------------------------------------------------------- constants
startUpPeriod == 30
FakedNumaID == -1
reservedForAllocate == 4
CPUsPerNuma == 8
systemNumas == {0, 1}
NumNUMANodes == Cardinality(systemNumas)
NumCPUs == NumNUMANodes * CPUsPerNuma

PoolNameReserve == "reserve"
PoolNameShare == "share"
PoolNameReclaim == "reclaim"
PoolNameDedicated == "dedicated"
PoolNameBatch == "batch"

QoSRegionTypeShare == "share"
QoSRegionTypeDedicatedNumaExclusive == "dedicated-numa-exclusive"

\* ------------------------------------------------- the container population
\* The containers MetaCache may hold.  Their static fields are what the
\* advisor reads of types.ContainerInfo.
ContainerIds == {"s1", "s2", "d0", "d1", "r1"}

QoSLevel(c) ==
  CASE c = "s1" -> "shared_cores"
    [] c = "s2" -> "shared_cores"
    [] c = "d0" -> "dedicated_cores"
    [] c = "d1" -> "dedicated_cores"
    [] OTHER -> "reclaimed_cores"

OwnerPoolName(c) ==
  CASE c = "s1" -> PoolNameShare
    [] c = "s2" -> PoolNameBatch
    [] c = "d0" -> PoolNameDedicated
    [] c = "d1" -> PoolNameDedicated
    [] OTHER -> PoolNameReclaim

IsNumaBinding(c) == c \in {"d0", "d1"}

\* the NUMA ids of ci.TopologyAwareAssignments
TopologyAwareAssignments(c) ==
  CASE c = "d0" -> {0}
    [] c = "d1" -> {1}
    [] OTHER -> systemNumas

CPURequest(c) ==
  CASE c = "s1" -> 3
    [] c = "s2" -> 14
    [] c = "d0" -> 6
    [] c = "d1" -> 5
    [] OTHER -> 1

\* Pools MetaCache may hold an entry for (the dedicated pool never has one).
PoolNames == {PoolNameReserve, PoolNameShare, PoolNameBatch}

\* The container populations a run of the model draws from: the containers
\* that come and go on the node during one run.
Populations ==
  {{"s1", "s2"}, {"s1", "d0"}, {"s1", "r1"}, {"d0", "r1"}, {"d0", "d1"}}

\* reservePoolInfo.TopologyAwareAssignments: CPUs of the reserve pool per NUMA
ReserveTopologyAwareAssignments == [n \in systemNumas |-> 1]

UUIDs == 1..MaxUUID

\* ------------------------------------------------------------------- state
VARIABLES
  population,      \* the containers that may appear on the node in this run
  now,             \* the wall clock, seconds since the advisor's construction epoch
  startTime,       \* cra.startTime
  enableReclaim,   \* conf.ReclaimedResourceConfiguration.EnableReclaim()
  pc,              \* where the Run goroutine is
  poolEntries,     \* MetaCache pool infos: pool name -> [RegionNames]
  containerEntries,\* MetaCache container infos: container -> [RegionNames]
  regionEntries,   \* MetaCache region entries, as last published
  regionMap,       \* cra.regionMap: region name -> region
  nonBindingNumas, \* cra.nonBindingNumas
  sendCh,          \* the plan the advisor is blocked sending, or NoPlan
  cycle,           \* history: how the update cycle ended that the last step
                   \* completed ("none" when the last step was not the advisor's)
  mutex,           \* cra.mutex: [writer, readers]
  ctxDone,         \* the context passed to Run is cancelled
  trigger,         \* the goroutines that send on recvCh: idle, blocked in
                   \* their send, or delivered
  server,          \* whether the CPU server still receives from sendCh
  reader,          \* the goroutines that call GetHeadroom: idle, waiting
                   \* in RLock, rlocked, done
  cancelledAt      \* history: where Run was when the context was cancelled

\* the state of Run's surroundings, which an update cycle does not touch
runVars == <<ctxDone, trigger, server, reader, cancelledAt>>

vars == <<population, now, startTime, enableReclaim, pc, poolEntries, containerEntries,
          regionEntries, regionMap, nonBindingNumas, sendCh, cycle, mutex, runVars>>

\* the goroutines around the advisor
Senders == {"t1", "t2"}
Readers == {"g1", "g2"}

\* the send channel with no plan on it (a plan always has a reserve entry)
NoPlan == [PoolEntries |-> <<>>]

\* ---------------------------------------------------------------- helpers
RECURSIVE SumOver(_, _)
SumOver(S, f) ==
  IF S = {} THEN 0
  ELSE LET x == CHOOSE y \in S : TRUE IN f[x] + SumOver(S \ {x}, f)

\* math.Ceil(float64(a) / float64(b)) for a >= 0, b > 0
CeilDiv(a, b) == (a + b - 1) \div b

Max(a, b) == IF a >= b THEN a ELSE b
Min(a, b) == IF a <= b THEN a ELSE b

\* every order in which a Go map iteration may visit the keys S
Orders(S) ==
  {o \in [1..Cardinality(S) -> S] : \A i, j \in DOMAIN o : i # j => o[i] # o[j]}

EmptyMap == [x \in {} |-> 0]

\* ------------------------------------------------------------- QoS regions
\* A region as the advisor sees it through region.QoSRegion.
NoEssentials ==
  [Total |-> 0, ReservePoolSize |-> 0, ReservedForAllocate |-> 0,
   EnableReclaim |-> FALSE]

NewQoSRegion(type, ownerPoolName, numas) ==
  [Type |-> type, OwnerPoolName |-> ownerPoolName, podSet |-> {},
   bindingNumas |-> numas, essentials |-> NoEssentials,
   provisionOk |-> FALSE, knob |-> 0, headroomOk |-> FALSE, headroom |-> 0]

\* region.NewQoSRegionShare: binding NUMAs are set by updateNonBindingNumas
NewQoSRegionShare(ownerPoolName) ==
  NewQoSRegion(QoSRegionTypeShare, ownerPoolName, {})

\* region.NewQoSRegionDedicatedNumaExclusive(name, ownerPoolName, conf, numaID, ...)
NewQoSRegionDedicatedNumaExclusive(ownerPoolName, numaID) ==
  NewQoSRegion(QoSRegionTypeDedicatedNumaExclusive, ownerPoolName, {numaID})

\* r.Clear()
Clear(r) == [r EXCEPT !.podSet = {}]

\* r.AddContainer(ci)
AddContainer(r, c) == [r EXCEPT !.podSet = @ \cup {c}]

\* r.IsEmpty()
IsEmpty(r) == r.podSet = {}

\* r.SetBindingNumas(numas)
SetBindingNumas(r, numas) == [r EXCEPT !.bindingNumas = numas]

\* r.SetEssentials(essentials)
SetEssentials(r, e) == [r EXCEPT !.essentials = e]

RequestOf == [c \in ContainerIds |-> CPURequest(c)]

\* The canonical provision policy's control knob for region r:
\* non_reclaimed_cpuset_size of a share region, reclaimed_cpu_supplied of a
\* dedicated-numa-exclusive region.
CanonicalKnob(r) ==
  LET e == r.essentials
      req == SumOver(r.podSet, RequestOf)
  IN IF r.Type = QoSRegionTypeShare
     THEN IF e.EnableReclaim
          THEN Max(e.ReservePoolSize, Min(req, e.Total - e.ReservedForAllocate))
          ELSE e.Total - e.ReservePoolSize
     ELSE IF e.EnableReclaim
          THEN Max(0, e.Total - req - e.ReservedForAllocate)
          ELSE 0

\* r.TryUpdateProvision(): the policy update succeeds and stores the knob, or
\* fails (ok = FALSE) and the region has no legal provision.
TryUpdateProvision(r, ok) ==
  IF ok THEN [r EXCEPT !.provisionOk = TRUE, !.knob = CanonicalKnob(r)]
  ELSE [r EXCEPT !.provisionOk = FALSE]

\* r.GetProvision() returns an error iff the last policy update failed
GetProvisionErr(r) == ~r.provisionOk

\* The canonical headroom policy's value for region r
CanonicalHeadroom(r) ==
  IF r.Type = QoSRegionTypeShare
  THEN IF r.essentials.EnableReclaim THEN r.essentials.Total - r.knob ELSE 0
  ELSE r.knob

\* r.TryUpdateHeadroom()
TryUpdateHeadroom(r) ==
  [r EXCEPT !.headroomOk = TRUE, !.headroom = CanonicalHeadroom(r)]

\* r.GetHeadroom() returns an error until a headroom has been computed
GetRegionHeadroomErr(r) == ~r.headroomOk

\* ------------------------------------------------- assignment to regions
\* The state threaded through one assignContainersToRegions call:
\*   rm    cra.regionMap            cs   MetaCache container infos
\*   ps    MetaCache pool infos     used the names no new uuid may equal
\*   err   errList is non-empty     exh  the model ran out of names
\* A list of regions is a map name -> region; nil is the empty map.

\* uuid.NewUUID(): a name unlike every name in `used` (0 when the model has
\* no name left)
NewUUID(used) ==
  IF UUIDs \subseteq used THEN 0
  ELSE CHOOSE n \in UUIDs \ used : \A m \in UUIDs \ used : n <= m

\* faulty variant: the regions a pool names are never found again
getPoolRegions_None(st, poolName) == [regions |-> EmptyMap, err |-> FALSE]

\* getPoolRegions(poolName): [regions, err]
getPoolRegions(st, poolName) ==
  IF poolName \notin DOMAIN st.ps
  THEN [regions |-> EmptyMap, err |-> FALSE]
  ELSE LET names == st.ps[poolName].RegionNames IN
       IF \E n \in names : n \notin DOMAIN st.rm
       THEN [regions |-> EmptyMap, err |-> TRUE]
       ELSE [regions |-> [n \in names |-> st.rm[n]], err |-> FALSE]

\* getContainerRegions(ci): [regions, err]
getContainerRegions(st, c) ==
  LET names == st.cs[c].RegionNames IN
  IF \E n \in names : n \notin DOMAIN st.rm
  THEN [regions |-> EmptyMap, err |-> TRUE]
  ELSE [regions |-> [n \in names |-> st.rm[n]], err |-> FALSE]

\* The regions created "by numa node" for a NUMA-binding container: one
\* fresh name per NUMA id of its topology-aware assignment.
RECURSIVE CreateRegionsByNuma(_, _, _)
CreateRegionsByNuma(ownerPoolName, numas, used) ==
  IF numas = {} THEN EmptyMap
  ELSE LET numaID == CHOOSE n \in numas : \A m \in numas : n <= m
           name == NewUUID(used)
       IN (name :> NewQoSRegionDedicatedNumaExclusive(ownerPoolName, numaID))
            @@ CreateRegionsByNuma(ownerPoolName, numas \ {numaID}, used \cup {name})

\* assignToRegions(ci): [regions, err]
assignToRegions(st, c) ==
  IF QoSLevel(c) = "shared_cores"
  THEN LET got == getPoolRegions(st, OwnerPoolName(c)) IN
       IF got.err
       THEN [regions |-> EmptyMap, err |-> TRUE]
       ELSE IF DOMAIN got.regions # {}
       THEN [regions |-> got.regions, err |-> FALSE]
       ELSE [regions |-> (NewUUID(st.used) :> NewQoSRegionShare(OwnerPoolName(c))),
             err |-> FALSE]
  ELSE IF IsNumaBinding(c)
  THEN LET got == getContainerRegions(st, c) IN
       IF got.err
       THEN [regions |-> EmptyMap, err |-> TRUE]
       ELSE IF DOMAIN got.regions # {}
       THEN [regions |-> got.regions, err |-> FALSE]
       ELSE [regions |->
               CreateRegionsByNuma(OwnerPoolName(c), TopologyAwareAssignments(c), st.used),
             err |-> FALSE]
  ELSE [regions |-> EmptyMap, err |-> FALSE]

\* setContainerRegions(ci, regions)
setContainerRegions(st, c, names) ==
  [st EXCEPT !.cs[c].RegionNames = names]

\* faulty variant: the pool's region names are not recorded
setPoolRegions_Skip(st, poolName, names) == st

\* setPoolRegions(poolName, regions): an error when the pool is not found
setPoolRegions(st, poolName, names) ==
  IF poolName \notin DOMAIN st.ps
  THEN [st EXCEPT !.err = TRUE]
  ELSE [st EXCEPT !.ps[poolName].RegionNames = names]

\* The closure f that RangeAndUpdateContainer applies to one container
SyncContainer(st, c) ==
  LET a == assignToRegions(st, c)
      names == DOMAIN a.regions
      st1 == [st EXCEPT !.err = st.err \/ a.err,
                        !.used = @ \cup names,
                        !.exh = @ \/ 0 \in names]
  IN IF names = {} THEN st1
     ELSE LET rm2 == [n \in DOMAIN st.rm \cup names |->
                        IF n \in names THEN AddContainer(a.regions[n], c)
                        ELSE st.rm[n]]
              st2 == setContainerRegions([st1 EXCEPT !.rm = rm2], c, names)
          IN IF OwnerPoolName(c) = PoolNameDedicated THEN st2
             ELSE setPoolRegions(st2, OwnerPoolName(c), names)

\* faulty variant: the range stops at the first container whose assignment fails
RECURSIVE RangeAndUpdateContainer_StopOnErr(_, _)
RangeAndUpdateContainer_StopOnErr(st, order) ==
  IF order = <<>> \/ st.err THEN st
  ELSE RangeAndUpdateContainer_StopOnErr(SyncContainer(st, Head(order)), Tail(order))

\* metaCache.RangeAndUpdateContainer(f), visiting the containers in `order`
RECURSIVE RangeAndUpdateContainer(_, _)
RangeAndUpdateContainer(st, order) ==
  IF order = <<>> THEN st
  ELSE RangeAndUpdateContainer(SyncContainer(st, Head(order)), Tail(order))

\* faulty variant: no region is ever deleted
gc_Keep(rm) == rm

\* gc(): delete the empty regions of the region map
gc(rm) ==
  LET keep == {n \in DOMAIN rm : ~IsEmpty(rm[n])} IN [n \in keep |-> rm[n]]

\* faulty variant: the dedicated regions' NUMAs are not subtracted
NonBindingNumasOf_All(rm) == systemNumas

\* the non-binding NUMAs of region map rm: system - dedicated-exclusive
NonBindingNumasOf(rm) ==
  systemNumas \ UNION {rm[n].bindingNumas :
                         n \in {m \in DOMAIN rm :
                                  rm[m].Type = QoSRegionTypeDedicatedNumaExclusive}}

\* faulty variant: the share regions are not rebound
updateNonBindingNumas_Skip(rm) == rm

\* updateNonBindingNumas(): the region map with the share regions rebound
updateNonBindingNumas(rm) ==
  [n \in DOMAIN rm |->
     IF rm[n].Type = QoSRegionTypeShare
     THEN SetBindingNumas(rm[n], NonBindingNumasOf(rm))
     ELSE rm[n]]

\* faulty variant: the regions keep the containers of the previous cycle
ClearRegions_Skip(rm) == rm

\* "Clear containers for all regions"
ClearRegions(rm) == [n \in DOMAIN rm |-> Clear(rm[n])]

\* assignContainersToRegions(), with the containers ranged in `order`
assignContainersToRegions(rm, cs, ps, used, order) ==
  LET cleared == ClearRegions(rm)
      st == RangeAndUpdateContainer(
              [rm |-> cleared, cs |-> cs, ps |-> ps, used |-> used,
               err |-> FALSE, exh |-> FALSE],
              order)
      collected == gc(st.rm)
  IN [st EXCEPT !.rm = updateNonBindingNumas(collected)]
\* faulty variant: the reserve pool check is dropped
ReservePoolExists_Always(ps) == TRUE

\* ------------------------------------------------------- the update cycle
\* metaCache.GetPoolInfo(state.PoolNameReserve) finds the reserve pool
ReservePoolExists(ps) == PoolNameReserve \in DOMAIN ps

\* metaCache.GetPoolSize(state.PoolNameReserve)
ReservePoolSize == SumOver(systemNumas, ReserveTopologyAwareAssignments)

\* The essentials update() computes for region r
EssentialsOf(r, reclaim) ==
  [Total |-> Cardinality(r.bindingNumas) * CPUsPerNuma,
   ReservePoolSize |-> SumOver(r.bindingNumas, ReserveTopologyAwareAssignments),
   ReservedForAllocate |->
     CeilDiv(reservedForAllocate * Cardinality(r.bindingNumas), NumNUMANodes),
   EnableReclaim |-> reclaim]

\* "run an episode of provision policy update for each region"; the policy
\* update of the regions in `fail` fails
\* faulty variant: the headroom policy is updated in the provision loop,
\* before the plan is assembled and sent
UpdateProvisions_WithHeadroom(rm, reclaim, fail) ==
  [n \in DOMAIN rm |->
     TryUpdateHeadroom(
       TryUpdateProvision(SetEssentials(rm[n], EssentialsOf(rm[n], reclaim)),
                          n \notin fail))]

UpdateProvisions(rm, reclaim, fail) ==
  [n \in DOMAIN rm |->
     TryUpdateProvision(SetEssentials(rm[n], EssentialsOf(rm[n], reclaim)),
                        n \notin fail)]

\* faulty variant: a GetProvision error is ignored
AnyProvisionErr_Ignore(rm) == FALSE

\* The check both assemble loops make on every region: r.GetProvision()
\* returned an error for some region of rm
AnyProvisionErr(rm) == \E n \in DOMAIN rm : GetProvisionErr(rm[n])

\* faulty variant: no entry is built for the regions
assembleRegionEntries_Empty(rm) == [entries |-> EmptyMap, err |-> FALSE]

\* assembleRegionEntries(): [entries, err]
assembleRegionEntries(rm) ==
  IF AnyProvisionErr(rm)
  THEN [entries |-> EmptyMap, err |-> TRUE]
  ELSE [entries |->
          [n \in DOMAIN rm |->
             [RegionType |-> rm[n].Type, BindingNumas |-> rm[n].bindingNumas,
              ControlKnobMap |-> rm[n].knob]],
        err |-> FALSE]
\* faulty variant: the startup window is never in force
InStartUp_Never(t, start) == FALSE

\* time.Now().Before(cra.startTime.Add(startUpPeriod))
InStartUp(t, start) == t < start + startUpPeriod

\* The pool entries assembleProvision() has written after ranging the regions
\* of rm in `order`: [share, reclaim, req] = PoolEntries[share],
\* PoolEntries[reclaim] (EmptyMap when nil) and nonNumaBindingRequirement.
\* faulty variant: the share pool size is not added to the requirement
RECURSIVE RangeRegions_NoRequirement(_, _, _)
RangeRegions_NoRequirement(rm, order, acc) ==
  IF order = <<>> THEN acc
  ELSE LET r == rm[Head(order)]
           acc2 ==
             IF r.Type = QoSRegionTypeShare
             THEN [acc EXCEPT !.share = (FakedNumaID :> r.knob)]
             ELSE LET regionNuma == CHOOSE n \in r.bindingNumas :
                                      \A m \in r.bindingNumas : n <= m
                  IN [acc EXCEPT !.reclaim = (regionNuma :> r.knob) @@ @]
       IN RangeRegions_NoRequirement(rm, Tail(order), acc2)

RECURSIVE RangeRegions(_, _, _)
RangeRegions(rm, order, acc) ==
  IF order = <<>> THEN acc
  ELSE LET r == rm[Head(order)]
           acc2 ==
             IF r.Type = QoSRegionTypeShare
             THEN [acc EXCEPT !.share = (FakedNumaID :> r.knob),
                              !.req = @ + r.knob]
             ELSE LET regionNuma == CHOOSE n \in r.bindingNumas :
                                      \A m \in r.bindingNumas : n <= m
                  IN [acc EXCEPT !.reclaim = (regionNuma :> r.knob) @@ @]
       IN RangeRegions(rm, Tail(order), acc2)

\* assembleProvision(): [plan, err], the regions ranged in `order`
assembleProvision(rm, nbn, order) ==
  IF AnyProvisionErr(rm)
  THEN [plan |-> NoPlan, err |-> TRUE]
  ELSE LET acc == RangeRegions(rm, order,
                    [share |-> EmptyMap, reclaim |-> EmptyMap, req |-> 0])
           reservePoolSizeOfNonBindingNumas ==
             CeilDiv(ReservePoolSize * Cardinality(nbn), NumNUMANodes)
           reclaimPoolSizeOfNonBindingNumas ==
             Cardinality(nbn) * CPUsPerNuma - acc.req
               - reservePoolSizeOfNonBindingNumas
           reserveEntry == (PoolNameReserve :> (FakedNumaID :> ReservePoolSize))
           shareEntry == IF DOMAIN acc.share = {} THEN EmptyMap
                         ELSE (PoolNameShare :> acc.share)
           reclaimEntry ==
             (PoolNameReclaim :>
                ((FakedNumaID :> reclaimPoolSizeOfNonBindingNumas) @@ acc.reclaim))
       IN [plan |-> [PoolEntries |-> reserveEntry @@ shareEntry @@ reclaimEntry],
           err |-> FALSE]

\* ------------------------------------------------------------ GetHeadroom
\* faulty variant: the headroom of the non-binding NUMAs is never added
GetHeadroom_SumOnly(rm, nbn, ps) ==
  IF ~ReservePoolExists(ps) THEN [err |-> TRUE, value |-> 0]
  ELSE IF DOMAIN rm = {}
  THEN [err |-> FALSE, value |-> NumCPUs - ReservePoolSize]
  ELSE IF \E n \in DOMAIN rm : GetRegionHeadroomErr(rm[n])
  THEN [err |-> TRUE, value |-> 0]
  ELSE [err |-> FALSE,
        value |-> SumOver(DOMAIN rm, [n \in DOMAIN rm |-> rm[n].headroom])]

\* faulty variant: the empty region map is not told apart; the sum over the
\* regions and the headroom of the non-binding NUMAs are returned
GetHeadroom_NoEmptyCase(rm, nbn, ps) ==
  IF ~ReservePoolExists(ps) THEN [err |-> TRUE, value |-> 0]
  ELSE IF \E n \in DOMAIN rm : GetRegionHeadroomErr(rm[n])
  THEN [err |-> TRUE, value |-> 0]
  ELSE [err |-> FALSE,
        value |-> SumOver(DOMAIN rm, [n \in DOMAIN rm |-> rm[n].headroom])
                    + IF \E n \in DOMAIN rm : rm[n].Type = QoSRegionTypeShare
                      THEN 0
                      ELSE Cardinality(nbn) * CPUsPerNuma
                             - CeilDiv(ReservePoolSize * Cardinality(nbn), NumNUMANodes)]

\* cra.GetHeadroom(): [err, value]
GetHeadroom(rm, nbn, ps) ==
  IF ~ReservePoolExists(ps) THEN [err |-> TRUE, value |-> 0]
  ELSE IF DOMAIN rm = {}
  THEN [err |-> FALSE, value |-> NumCPUs - ReservePoolSize]
  ELSE IF \E n \in DOMAIN rm : GetRegionHeadroomErr(rm[n])
  THEN [err |-> TRUE, value |-> 0]
  ELSE LET total == SumOver(DOMAIN rm, [n \in DOMAIN rm |-> rm[n].headroom])
           hasShareRegion == \E n \in DOMAIN rm : rm[n].Type = QoSRegionTypeShare
           reservePoolSizeOfNonBindingNumas ==
             CeilDiv(ReservePoolSize * Cardinality(nbn), NumNUMANodes)
           headroomOfNonBindingNumas ==
             Cardinality(nbn) * CPUsPerNuma - reservePoolSizeOfNonBindingNumas
       IN [err |-> FALSE,
           value |-> IF hasShareRegion THEN total
                     ELSE total + headroomOfNonBindingNumas]

\* ---------------------------------------------------------- initial state
\* sync.RWMutex zero value; nobody has called anything yet
InitRunVars ==
  /\ mutex = [writer |-> FALSE, readers |-> {}]
  /\ ctxDone = FALSE
  /\ trigger = [s \in Senders |-> "idle"]
  /\ server = "receiving"
  /\ reader = [g \in Readers |-> "idle"]
  /\ cancelledAt = "none"

\* NewCPUResourceAdvisor: empty region map, empty non-binding NUMA set,
\* unbuffered channels, startTime = time.Now().  MetaCache starts without
\* pools and containers; other components fill it.
Init ==
  /\ population \in Populations
  /\ now = 0
  /\ startTime = now
  /\ enableReclaim \in BOOLEAN
  /\ pc = "select"
  /\ poolEntries = EmptyMap
  /\ containerEntries = EmptyMap
  /\ regionEntries = EmptyMap
  /\ regionMap = EmptyMap
  /\ nonBindingNumas = {}
  /\ sendCh = NoPlan
  /\ cycle = "none"
  /\ InitRunVars

\* ------------------------------------------------------------ environment
\* time passes
Tick ==
  /\ now < MaxTime
  /\ now' = Min(now + TickSeconds, MaxTime)
  /\ cycle' = "none"
  /\ UNCHANGED <<runVars, mutex>>
  /\ UNCHANGED <<population, startTime, enableReclaim, pc, poolEntries, containerEntries,
                 regionEntries, regionMap, nonBindingNumas, sendCh>>

\* another component adds a container to MetaCache (no region names yet)
MetaCacheAddContainer ==
  /\ \E c \in population \ DOMAIN containerEntries :
       containerEntries' = (c :> [RegionNames |-> {}]) @@ containerEntries
  /\ cycle' = "none"
  /\ UNCHANGED <<runVars, mutex>>
  /\ UNCHANGED <<population, now, startTime, enableReclaim, pc, poolEntries, regionEntries,
                 regionMap, nonBindingNumas, sendCh>>

\* another component removes a container from MetaCache
MetaCacheDeleteContainer ==
  /\ \E c \in DOMAIN containerEntries :
       containerEntries' =
         [d \in DOMAIN containerEntries \ {c} |-> containerEntries[d]]
  /\ cycle' = "none"
  /\ UNCHANGED <<runVars, mutex>>
  /\ UNCHANGED <<population, now, startTime, enableReclaim, pc, poolEntries, regionEntries,
                 regionMap, nonBindingNumas, sendCh>>

\* another component creates a pool entry in MetaCache: the reserve pool or
\* the owner pool of a container of the population
MetaCacheAddPool ==
  /\ \E p \in (PoolNames \cap ({PoolNameReserve} \cup {OwnerPoolName(c) : c \in population}))
                \ DOMAIN poolEntries :
       poolEntries' = (p :> [RegionNames |-> {}]) @@ poolEntries
  /\ cycle' = "none"
  /\ UNCHANGED <<runVars, mutex>>
  /\ UNCHANGED <<population, now, startTime, enableReclaim, pc, containerEntries,
                 regionEntries, regionMap, nonBindingNumas, sendCh>>

\* MetaCache loses its reserve pool entry
MetaCacheDeletePool ==
  /\ \E p \in DOMAIN poolEntries \cap {PoolNameReserve} :
       poolEntries' = [q \in DOMAIN poolEntries \ {p} |-> poolEntries[q]]
  /\ cycle' = "none"
  /\ UNCHANGED <<runVars, mutex>>
  /\ UNCHANGED <<population, now, startTime, enableReclaim, pc, containerEntries,
                 regionEntries, regionMap, nonBindingNumas, sendCh>>

\* ---------------------------------------------------------------- advisor
\* every region name some part of the state refers to
NamesInUse ==
  DOMAIN regionMap \cup DOMAIN regionEntries
    \cup UNION {poolEntries[p].RegionNames : p \in DOMAIN poolEntries}
    \cup UNION {containerEntries[c].RegionNames : c \in DOMAIN containerEntries}

\* update() returns to Run's select; `cycle` records how the cycle ended
Return(outcome) ==
  /\ pc' = "select"
  /\ cycle' = outcome
  /\ mutex' = [mutex EXCEPT !.writer = FALSE]
  /\ UNCHANGED sendCh

\* update() once the region entries are published: the startup check, the
\* assembly of the plan and the blocking send
NotifyCPUServer(rm, nbn) ==
  IF InStartUp(now, startTime)
  THEN Return("startup")
  ELSE \E order \in Orders(DOMAIN rm) :
       LET p == assembleProvision(rm, nbn, order)
       IN IF p.err
          THEN Return("provision_err")
          ELSE /\ pc' = "send"
               /\ sendCh' = p.plan
               /\ cycle' = "sending"
               /\ mutex' = [mutex EXCEPT !.writer = TRUE]

\* update() once the containers are assigned: the provision episode of every
\* region and the publication of the region entries
ProvisionAndPublish(rm, nbn) ==
  \E fail \in SUBSET DOMAIN rm :
    LET rm1 == UpdateProvisions(rm, enableReclaim, fail)
        e == assembleRegionEntries(rm1)
    IN /\ regionMap' = rm1
       /\ IF e.err
          THEN Return("entries_err") /\ UNCHANGED regionEntries
          ELSE regionEntries' = e.entries /\ NotifyCPUServer(rm1, nbn)

\* update() from its first statement up to its return or its blocking send;
\* the writer lock is held from here until update() returns
UpdateBody ==
  /\ IF ~ReservePoolExists(poolEntries)
     THEN /\ Return("no_reserve")
          /\ UNCHANGED <<poolEntries, containerEntries, regionMap,
                         nonBindingNumas, regionEntries>>
     ELSE \E order \in Orders(DOMAIN containerEntries) :
          LET a == assignContainersToRegions(regionMap, containerEntries,
                                             poolEntries, NamesInUse, order)
          IN /\ ~a.exh
             /\ containerEntries' = a.cs
             /\ poolEntries' = a.ps
             /\ nonBindingNumas' = NonBindingNumasOf(a.rm)
             /\ IF a.err
                THEN /\ regionMap' = a.rm
                     /\ Return("assign_err")
                     /\ UNCHANGED regionEntries
                ELSE ProvisionAndPublish(a.rm, NonBindingNumasOf(a.rm))
  /\ UNCHANGED <<runVars, population, now, startTime, enableReclaim>>

\* Run receives a trigger from recvCh and calls update(); nobody else holds
\* the lock, and the cycle is taken as one step
Update ==
  /\ pc = "select"
  /\ UpdateBody

\* The CPU server receives the plan: `cra.sendCh <- provision` completes,
\* update() runs TryUpdateHeadroom on every region and returns
SendPlan ==
  /\ pc = "send"
  /\ server = "receiving"
  /\ sendCh' = NoPlan
  /\ mutex' = [mutex EXCEPT !.writer = FALSE]
  /\ regionMap' = [n \in DOMAIN regionMap |-> TryUpdateHeadroom(regionMap[n])]
  /\ pc' = "select"
  /\ cycle' = "done"
  /\ UNCHANGED <<runVars, population, now, startTime, enableReclaim, poolEntries, containerEntries,
                 regionEntries, nonBindingNumas>>

Next ==
  \/ Tick
  \/ MetaCacheAddContainer
  \/ MetaCacheDeleteContainer
  \/ MetaCacheAddPool
  \/ MetaCacheDeletePool
  \/ Update
  \/ SendPlan

Spec == Init /\ [][Next]_vars

\* ------------------------------------------- Run among its goroutines
\* The same advisor with the goroutines around it: senders of triggers on
\* recvCh, the CPU server receiving from sendCh, callers of GetHeadroom and
\* the owner of Run's context.  update() is taken in the steps at which
\* another goroutine can observe it: the call waiting for the lock, the
\* regions cleared, the rest of the cycle up to its return or its send.
\* MetaCache holds a shared_cores and a dedicated NUMA-binding container from
\* the start, and the startup window has passed.
dataVars == <<population, now, startTime, enableReclaim, poolEntries, containerEntries,
              regionEntries, regionMap, nonBindingNumas, sendCh, cycle>>

InitRun ==
  /\ population = {"s1", "d0"}
  /\ now = MaxTime
  /\ startTime = 0
  /\ enableReclaim = TRUE
  /\ pc = "select"
  /\ poolEntries = (PoolNameReserve :> [RegionNames |-> {}])
                     @@ (PoolNameShare :> [RegionNames |-> {}])
  /\ containerEntries = [c \in population |-> [RegionNames |-> {}]]
  /\ regionEntries = EmptyMap
  /\ regionMap = EmptyMap
  /\ nonBindingNumas = {}
  /\ sendCh = NoPlan
  /\ cycle = "none"
  /\ InitRunVars

\* a goroutine starts `recvCh <- struct{}{}` and blocks in it
TriggerSend(s) ==
  /\ trigger[s] # "blocked"
  /\ trigger' = [trigger EXCEPT ![s] = "blocked"]
  /\ UNCHANGED <<dataVars, pc, mutex, ctxDone, server, reader, cancelledAt>>

\* faulty variant: recvCh takes a trigger wherever Run is
RecvReady_Always(p) == TRUE

\* recvCh is unbuffered: a send on it completes only while Run is in its
\* select, receiving
RecvReady(p) == p = "select"

\* Run's select takes `case <-cra.recvCh` and calls update(), which asks for
\* the writer lock
RunRecv(s) ==
  /\ RecvReady(pc)
  /\ trigger[s] = "blocked"
  /\ trigger' = [trigger EXCEPT ![s] = "delivered"]
  /\ pc' = "lock"
  /\ UNCHANGED <<dataVars, mutex, ctxDone, server, reader, cancelledAt>>

\* cra.mutex.Lock() returns
RunLock ==
  /\ pc = "lock"
  /\ ~mutex.writer
  /\ mutex.readers = {}
  /\ mutex' = [mutex EXCEPT !.writer = TRUE]
  /\ pc' = "clear"
  /\ UNCHANGED <<dataVars, runVars>>

\* update() up to the cleared regions: the reserve pool check, then
\* r.Clear() on every region
RunClear ==
  /\ pc = "clear"
  /\ IF ~ReservePoolExists(poolEntries)
     THEN Return("no_reserve") /\ UNCHANGED regionMap
     ELSE /\ regionMap' = ClearRegions(regionMap)
          /\ pc' = "assign"
          /\ UNCHANGED <<mutex, sendCh, cycle>>
  /\ UNCHANGED <<population, now, startTime, enableReclaim, poolEntries, containerEntries,
                 regionEntries, nonBindingNumas, runVars>>

\* the rest of update() up to its return or its blocking send
RunAssign ==
  /\ pc = "assign"
  /\ UpdateBody

\* faulty variant: Run does not look at its context
CtxDoneReady_Never(done) == FALSE

\* `case <-ctx.Done()` of Run's select is ready
CtxDoneReady(done) == done

\* Run's select takes `case <-ctx.Done()` and Run returns
RunCtxDone ==
  /\ pc = "select"
  /\ CtxDoneReady(ctxDone)
  /\ pc' = "returned"
  /\ UNCHANGED <<dataVars, mutex, runVars>>

\* the owner of the context cancels it
CtxCancel ==
  /\ ~ctxDone
  /\ ctxDone' = TRUE
  /\ cancelledAt' = pc
  /\ UNCHANGED <<dataVars, pc, mutex, trigger, server, reader>>

\* the CPU server stops receiving from sendCh
ServerStop ==
  /\ server = "receiving"
  /\ server' = "stopped"
  /\ UNCHANGED <<dataVars, pc, mutex, ctxDone, trigger, reader, cancelledAt>>

\* faulty variant: GetHeadroom reads without waiting for the writer
RLockAvailable_Always(m, p) == TRUE

\* cra.mutex.RLock() can return: no writer holds the lock and none waits
RLockAvailable(m, p) == ~m.writer /\ p # "lock"

\* a goroutine calls GetHeadroom and is in cra.mutex.RLock()
GetHeadroomCall(g) ==
  /\ reader[g] \in {"idle", "done"}
  /\ reader' = [reader EXCEPT ![g] = "waiting"]
  /\ UNCHANGED <<dataVars, pc, mutex, ctxDone, trigger, server, cancelledAt>>

\* cra.mutex.RLock() returns to the goroutine that called GetHeadroom
GetHeadroomRLock(g) ==
  /\ reader[g] = "waiting"
  /\ RLockAvailable(mutex, pc)
  /\ reader' = [reader EXCEPT ![g] = "rlocked"]
  /\ mutex' = [mutex EXCEPT !.readers = @ \cup {g}]
  /\ UNCHANGED <<dataVars, pc, ctxDone, trigger, server, cancelledAt>>

\* GetHeadroom reads the reserve pool size, the region map and the
\* non-binding NUMAs, returns, and its deferred RUnlock runs
GetHeadroomReturn(g) ==
  /\ reader[g] = "rlocked"
  /\ reader' = [reader EXCEPT ![g] = "done"]
  /\ mutex' = [mutex EXCEPT !.readers = @ \ {g}]
  /\ UNCHANGED <<dataVars, pc, ctxDone, trigger, server, cancelledAt>>

NextRun ==
  \/ \E s \in Senders : TriggerSend(s)
  \/ \E s \in Senders : RunRecv(s)
  \/ RunLock
  \/ RunClear
  \/ RunAssign
  \/ SendPlan
  \/ RunCtxDone
  \/ CtxCancel
  \/ ServerStop
  \/ \E g \in Readers : GetHeadroomCall(g)
  \/ \E g \in Readers : GetHeadroomRLock(g)
  \/ \E g \in Readers : GetHeadroomReturn(g)

SpecRun == InitRun /\ [][NextRun]_vars

\* Run with one sender of triggers and one caller of GetHeadroom, for what
\* happens in the end.
NextCancel ==
  \/ TriggerSend("t1")
  \/ RunRecv("t1")
  \/ RunLock
  \/ RunClear
  \/ RunAssign
  \/ SendPlan
  \/ RunCtxDone
  \/ CtxCancel
  \/ ServerStop
  \/ GetHeadroomCall("g1")
  \/ GetHeadroomRLock("g1")
  \/ GetHeadroomReturn("g1")

\* Scheduling: a goroutine that can run does run (Run inside update(), the
\* CPU server while it receives, GetHeadroom up to its return); a select
\* that finds its context done again and again takes that case in the end.
\* The CPU server may stop receiving and the sender of triggers may stay
\* away.  RunAssignDone is the step that takes Run out of "assign": only
\* RunAssign makes it, and RunAssign is possible wherever Run is there.
RunAssignDone == pc = "assign" /\ pc' \in {"select", "send"}

FairCancel ==
  /\ WF_vars(RunLock \/ RunClear)
  /\ WF_pc(RunAssignDone)
  /\ WF_vars(SendPlan)
  /\ SF_vars(RunCtxDone)
  /\ SF_vars(GetHeadroomRLock("g1"))
  /\ WF_vars(GetHeadroomReturn("g1"))

SpecCancel == InitRun /\ [][NextCancel]_vars /\ FairCancel

\* ================================================================ properties
\* The step of the advisor that runs update() from its first statement: the
\* only step taken with Run in its select that leaves a cycle record.
UpdateStep == pc = "select" /\ cycle' # "none"

\* The cycle the last step completed ran assignContainersToRegions.
CycleAssigned == cycle \in {"assign_err", "entries_err", "startup", "provision_err", "sending"}

\* The region entries assembleRegionEntries builds from region map rm when no
\* region's provision is in error.
EntriesOf(rm) ==
  [n \in DOMAIN rm |->
     [RegionType |-> rm[n].Type, BindingNumas |-> rm[n].bindingNumas,
      ControlKnobMap |-> rm[n].knob]]

InWindow == now < startTime + startUpPeriod

\* C1: while less than 30 s have passed since the advisor was constructed no
\* cycle offers a plan on the send channel (the advisor is never at its send
\* and no cycle has got as far as sending), and a cycle of that window that
\* is not abandoned earlier (reserve pool missing, assignment error, region
\* entry error) has published the entries of its regions to MetaCache.
C1_StartupNoSendButPublish ==
  /\ InWindow => /\ pc = "select"
                 /\ sendCh = NoPlan
                 /\ cycle \in {"none", "no_reserve", "assign_err", "entries_err", "startup"}
  /\ cycle = "startup" => regionEntries = EntriesOf(regionMap)

\* a cycle inside the startup window has published the entry of a region
C1_Witness ==
  /\ cycle = "startup"
  /\ InWindow
  /\ now > startTime
  /\ regionEntries # EmptyMap
  /\ regionEntries = EntriesOf(regionMap)

\* C2 as claimed: a cycle that returns in the startup window after publishing
\* its region entries has run TryUpdateHeadroom on every region of the map.
C2_StartupUpdatesHeadroom ==
  cycle = "startup" =>
    \A n \in DOMAIN regionMap :
      /\ regionMap[n].headroomOk
      /\ regionMap[n].headroom = CanonicalHeadroom(regionMap[n])

\* C2 amended: inside the startup window the cycle returns right after the
\* publication of the region entries, so TryUpdateHeadroom is never run in the
\* window: no region has a headroom before the window has passed.
C2_NoHeadroomInStartup ==
  InWindow => \A n \in DOMAIN regionMap : ~regionMap[n].headroomOk

\* a startup cycle has published a region's entry and the region has no headroom
C2_Witness ==
  /\ cycle = "startup"
  /\ \E n \in DOMAIN regionMap :
       /\ n \in DOMAIN regionEntries
       /\ regionMap[n].provisionOk
       /\ ~regionMap[n].headroomOk

\* C3: a cycle triggered while MetaCache has no reserve pool changes nothing:
\* region map (with every region's container set), non-binding NUMA set,
\* container and pool region names and published region entries stay as they
\* were, nothing is put on the send channel and Run is back in its select.
C3_NoReserveIsNoOp ==
  [][(UpdateStep /\ PoolNameReserve \notin DOMAIN poolEntries) =>
       /\ UNCHANGED <<regionMap, nonBindingNumas, containerEntries,
                      poolEntries, regionEntries, sendCh>>
       /\ pc' = "select"]_vars

\* a cycle was skipped for its missing reserve pool while regions existed and
\* a container waited for assignment
C3_Witness ==
  /\ cycle = "no_reserve"
  /\ DOMAIN regionMap # {}
  /\ regionEntries # EmptyMap
  /\ \E c \in DOMAIN containerEntries :
       QoSLevel(c) = "shared_cores" /\ containerEntries[c].RegionNames = {}

Aborted == {"no_reserve", "assign_err", "entries_err", "provision_err"}

\* C4 as claimed: a cycle that aborts leaves the region map (with the
\* regions' container sets), the non-binding NUMA set and the value of
\* GetHeadroom as they were before the cycle started.
C4_AbortLeavesOutputsIntact ==
  [][(UpdateStep /\ cycle' \in Aborted) =>
       /\ UNCHANGED <<regionMap, nonBindingNumas>>
       /\ GetHeadroom(regionMap', nonBindingNumas', poolEntries')
            = GetHeadroom(regionMap, nonBindingNumas, poolEntries)]_vars

\* C4 amended: a cycle that aborts leaves the published region entries as
\* they were and sends nothing.  Aborted for its missing reserve pool, it also
\* leaves region map, non-binding NUMA set and GetHeadroom as they were;
\* aborted after assignment, it leaves the region map of its own
\* reassignment: every region holds containers MetaCache has now, none is
\* empty, and the non-binding NUMAs are recomputed from the regions.
C4_AbortKeepsPublished ==
  [][(UpdateStep /\ cycle' \in Aborted) =>
       /\ UNCHANGED <<regionEntries, sendCh>>
       /\ pc' = "select"
       /\ PoolNameReserve \notin DOMAIN poolEntries =>
            /\ UNCHANGED <<regionMap, nonBindingNumas>>
            /\ GetHeadroom(regionMap', nonBindingNumas', poolEntries')
                 = GetHeadroom(regionMap, nonBindingNumas, poolEntries)
       /\ PoolNameReserve \in DOMAIN poolEntries =>
            /\ \A n \in DOMAIN regionMap' :
                 /\ regionMap'[n].podSet # {}
                 /\ regionMap'[n].podSet \subseteq DOMAIN containerEntries
            /\ nonBindingNumas' =
                 systemNumas \ UNION {regionMap'[n].bindingNumas :
                                        n \in {m \in DOMAIN regionMap' :
                                                 regionMap'[m].Type # QoSRegionTypeShare}}]_vars

\* a cycle aborted after assignment while entries of an earlier cycle were
\* published, and the region map no longer matches them
C4_Witness ==
  /\ cycle \in {"assign_err", "entries_err"}
  /\ regionEntries # EmptyMap
  /\ DOMAIN regionMap # DOMAIN regionEntries

\* The lookup of the regions container c names (through its pool when it is
\* shared_cores, itself when it is NUMA-binding) fails in the current state.
LookupFails(c) ==
  IF QoSLevel(c) = "shared_cores"
  THEN /\ OwnerPoolName(c) \in DOMAIN poolEntries
       /\ ~(poolEntries[OwnerPoolName(c)].RegionNames \subseteq DOMAIN regionMap)
  ELSE /\ IsNumaBinding(c)
       /\ ~(containerEntries[c].RegionNames \subseteq DOMAIN regionMap)

NeedsRegion(c) == QoSLevel(c) = "shared_cores" \/ IsNumaBinding(c)

\* C5 as claimed: a cycle in which the assignment of some container fails is
\* not abandoned for it.
C5_ErrorDoesNotAbort ==
  [][(/\ UpdateStep
      /\ PoolNameReserve \in DOMAIN poolEntries
      /\ \E c \in DOMAIN containerEntries : LookupFails(c))
       => cycle' # "assign_err"]_vars

\* C5 amended: an assignment error for one container does not stop the
\* assignment pass -- every other container that needs a region is a member
\* of a region afterwards -- but the cycle is abandoned after the pass: no
\* region is provisioned, no region entries are published, nothing is sent.
C5_ErrorEndsCycleAfterAssignment ==
  [][(UpdateStep /\ cycle' = "assign_err") =>
       /\ \A c \in DOMAIN containerEntries :
            (NeedsRegion(c) /\ ~LookupFails(c)) =>
              \E n \in DOMAIN regionMap' : c \in regionMap'[n].podSet
       /\ \A n \in DOMAIN regionMap' :
            IF n \in DOMAIN regionMap
            THEN /\ regionMap'[n].provisionOk = regionMap[n].provisionOk
                 /\ regionMap'[n].knob = regionMap[n].knob
                 /\ regionMap'[n].essentials = regionMap[n].essentials
            ELSE ~regionMap'[n].provisionOk
       /\ UNCHANGED <<regionEntries, sendCh>>
       /\ pc' = "select"]_vars

\* a cycle was abandoned for one container's lookup error after another
\* container had been assigned to a region of its own
C5_Witness ==
  /\ cycle = "assign_err"
  /\ \E c, d \in DOMAIN containerEntries :
       /\ c # d
       /\ QoSLevel(c) = "shared_cores"
       /\ OwnerPoolName(c) \in DOMAIN poolEntries
       /\ ~(poolEntries[OwnerPoolName(c)].RegionNames \subseteq DOMAIN regionMap)
       /\ \E n \in DOMAIN regionMap : regionMap[n].podSet = {d}

\* Some region of the map has no legal provision: its GetProvision errs.
SomeProvisionFailed(rm) == \E n \in DOMAIN rm : ~rm[n].provisionOk

\* C6 as claimed: after a cycle in which a region's GetProvision returned an
\* error no plan is sent and the entries of the cycle's regions are published.
C6_ProvisionErrStillPublishes ==
  cycle \in {"entries_err", "provision_err"} =>
    /\ sendCh = NoPlan
    /\ DOMAIN regionEntries = DOMAIN regionMap
    /\ \A n \in DOMAIN regionMap :
         /\ regionEntries[n].RegionType = regionMap[n].Type
         /\ regionEntries[n].BindingNumas = regionMap[n].bindingNumas

\* C6 amended: a cycle that leaves a region whose GetProvision errs sends no
\* plan and publishes nothing either: MetaCache keeps the region entries it
\* had before the cycle.
C6_ProvisionErrPublishesNothing ==
  [][(UpdateStep /\ SomeProvisionFailed(regionMap')) =>
       /\ UNCHANGED regionEntries
       /\ sendCh' = NoPlan]_vars

\* a region's provision failed in a cycle and MetaCache still holds entries
\* that differ from the cycle's regions
C6_Witness ==
  /\ cycle = "entries_err"
  /\ regionEntries # EmptyMap
  /\ \E n \in DOMAIN regionMap :
       /\ ~regionMap[n].provisionOk
       /\ n \in DOMAIN regionEntries
       /\ regionEntries[n].BindingNumas # regionMap[n].bindingNumas

\* C7 as claimed: outside the startup window a cycle in which a region's
\* provision failed still sends a plan (built from the other regions).
C7_ProvisionErrStillSends ==
  [][(/\ UpdateStep
      /\ ~InWindow
      /\ cycle' \notin {"no_reserve", "assign_err"}
      /\ SomeProvisionFailed(regionMap'))
       => (pc' = "send" /\ sendCh' # NoPlan)]_vars

\* C7 amended: when a region's provision fails in a cycle the region stays in
\* the region map (with its containers) while the whole cycle is abandoned:
\* Run returns to its select and no plan is put on the send channel, whatever
\* the other regions provide.
C7_ProvisionErrAbandonsCycle ==
  [][(/\ UpdateStep
      /\ cycle' \notin {"no_reserve", "assign_err"}
      /\ SomeProvisionFailed(regionMap')) =>
       /\ pc' = "select"
       /\ sendCh' = NoPlan
       /\ cycle' = "entries_err"
       /\ \A n \in DOMAIN regionMap' :
            ~regionMap'[n].provisionOk => regionMap'[n].podSet # {}]_vars

\* outside the startup window one region's provision failed, another
\* region's succeeded, and no plan was sent
C7_Witness ==
  /\ cycle = "entries_err"
  /\ ~InWindow
  /\ pc = "select"
  /\ sendCh = NoPlan
  /\ \E n, m \in DOMAIN regionMap :
       ~regionMap[n].provisionOk /\ regionMap[m].provisionOk

\* The cycle the last step completed was not abandoned.
CyclePublished == cycle \in {"startup", "sending"}

\* C8 as claimed: at the end of a cycle that was not abandoned every region
\* name in a pool's or a container's region names names a region of the map.
C8_RegionNamesConsistent ==
  CyclePublished =>
    /\ \A p \in DOMAIN poolEntries :
         poolEntries[p].RegionNames \subseteq DOMAIN regionMap
    /\ \A c \in DOMAIN containerEntries :
         containerEntries[c].RegionNames \subseteq DOMAIN regionMap

\* C9 as claimed: after a cycle that ran with the reserve pool present every
\* shared_cores or NUMA-binding container of MetaCache is in a region of the
\* map and every other container is in none.
C9_ContainersAssigned ==
  CycleAssigned =>
    \A c \in DOMAIN containerEntries :
      IF NeedsRegion(c)
      THEN \E n \in DOMAIN regionMap : c \in regionMap[n].podSet
      ELSE \A n \in DOMAIN regionMap : c \notin regionMap[n].podSet

\* C10: no region of the region map has an empty container set: a cycle that
\* assigns ends with gc, and nothing else touches the container sets.
C10_NoEmptyRegion ==
  \A n \in DOMAIN regionMap : regionMap[n].podSet # {}

\* a cycle deleted the region of a pool whose containers had all gone: the
\* pool still names the region, the map no longer has it
C10_Witness ==
  /\ CycleAssigned
  /\ \E p \in DOMAIN poolEntries :
       \E n \in poolEntries[p].RegionNames : n \notin DOMAIN regionMap
  /\ \E n \in DOMAIN regionMap : regionMap[n].podSet # {}

\* The union of the binding NUMAs of the regions of the region map.
BoundNumas == UNION {regionMap[n].bindingNumas : n \in DOMAIN regionMap}

ShareRegions == {n \in DOMAIN regionMap : regionMap[n].Type = QoSRegionTypeShare}

ExclusiveRegions ==
  {n \in DOMAIN regionMap : regionMap[n].Type = QoSRegionTypeDedicatedNumaExclusive}

ExclusiveNumas == UNION {regionMap[n].bindingNumas : n \in ExclusiveRegions}

\* C11 as claimed: after every cycle that was not abandoned the regions of
\* the region map together bind every system NUMA node.
C11_RegionsCoverSystemNumas ==
  CyclePublished => systemNumas \subseteq BoundNumas

\* C11 amended: after every cycle that was not abandoned the regions bind
\* every system NUMA node when the region map has a share region; without a
\* share region they bind the NUMAs of the dedicated-numa-exclusive regions
\* only, and the rest of the system NUMAs is the advisor's non-binding NUMA
\* set (empty when the dedicated regions take every NUMA), bound by no region.
C11_ShareRegionCoversRest ==
  CyclePublished =>
    /\ ShareRegions # {} => BoundNumas = systemNumas
    /\ ShareRegions = {} =>
         /\ BoundNumas = ExclusiveNumas
         /\ nonBindingNumas = systemNumas \ BoundNumas

\* a published cycle with a dedicated region on one NUMA and a share region
\* bound to the other
C11_Witness ==
  /\ CyclePublished
  /\ \E n \in ShareRegions, m \in ExclusiveRegions :
       /\ regionMap[m].bindingNumas = {0}
       /\ regionMap[n].bindingNumas = {1}

\* C12: after every cycle that performed assignment every share region binds
\* the system NUMAs minus the NUMAs of the dedicated-numa-exclusive regions,
\* and the advisor's non-binding NUMA set is that same set.
C12_ShareBindsNonBinding ==
  CycleAssigned =>
    /\ nonBindingNumas = systemNumas \ ExclusiveNumas
    /\ \A n \in ShareRegions :
         regionMap[n].bindingNumas = systemNumas \ ExclusiveNumas

\* a cycle assigned a share region next to a dedicated region and the
\* non-binding set is a proper part of the system NUMAs
C12_Witness ==
  /\ CycleAssigned
  /\ ShareRegions # {}
  /\ ExclusiveNumas # {}
  /\ nonBindingNumas # systemNumas
  /\ \A n \in ShareRegions : regionMap[n].bindingNumas = nonBindingNumas

\* The CPU quantities of plan p.
PlanQuantities(p) ==
  UNION {{p.PoolEntries[pool][numa] : numa \in DOMAIN p.PoolEntries[pool]} :
           pool \in DOMAIN p.PoolEntries}

\* C13 as claimed: with reclaim enabled every CPU quantity of every plan on
\* the send channel is non-negative, PoolEntries[reclaim][-1] included,
\* whatever the number of share regions.
C13_PlanQuantitiesNonNegative ==
  (sendCh # NoPlan /\ enableReclaim) =>
    \A q \in PlanQuantities(sendCh) : q >= 0

\* C14: the headroom of a region changes only in the step in which the plan
\* of the cycle is taken from the send channel; the steps of a cycle before
\* its send, and cycles that return without sending, update no headroom.
C14_HeadroomAfterSend ==
  [][(\E n \in DOMAIN regionMap \cap DOMAIN regionMap' :
        \/ regionMap'[n].headroomOk # regionMap[n].headroomOk
        \/ regionMap'[n].headroom # regionMap[n].headroom)
       => /\ pc = "send"
          /\ sendCh # NoPlan
          /\ sendCh' = NoPlan]_vars

\* a cycle's plan was received and a region that had no headroom has one now
C14_Witness ==
  /\ cycle = "done"
  /\ sendCh = NoPlan
  /\ \E n \in DOMAIN regionMap :
       /\ regionMap[n].headroomOk
       /\ regionMap[n].headroom = CanonicalHeadroom(regionMap[n])
       /\ regionMap[n].headroom > 0

\* The assignment pass of a cycle started in the current state collects an
\* error: a region lookup fails, or the pool of a shared_cores container is
\* not in MetaCache when its region names are to be recorded.
AssignmentErrs ==
  \E c \in DOMAIN containerEntries :
    \/ LookupFails(c)
    \/ QoSLevel(c) = "shared_cores" /\ OwnerPoolName(c) \notin DOMAIN poolEntries

\* C16: a consumed trigger puts at most one plan on the send channel, and it
\* puts one exactly when its cycle is successful: after the startup window,
\* with the reserve pool present, without assignment error and without a
\* region whose provision is in error.  Nothing but an update cycle puts a
\* plan on the channel.
C16_OnePlanPerSuccessfulCycle ==
  [][/\ UpdateStep =>
          /\ sendCh = NoPlan
          /\ (sendCh' # NoPlan /\ pc' = "send") <=>
               /\ PoolNameReserve \in DOMAIN poolEntries
               /\ ~InWindow
               /\ ~AssignmentErrs
               /\ ~SomeProvisionFailed(regionMap')
          /\ sendCh' = NoPlan => pc' = "select"
     /\ (sendCh' # sendCh /\ sendCh' # NoPlan) => UpdateStep]_vars

\* a successful cycle over a non-empty region map has its plan on the channel
C16_Witness ==
  /\ cycle = "sending"
  /\ pc = "send"
  /\ sendCh # NoPlan
  /\ PoolNameShare \in DOMAIN sendCh.PoolEntries
  /\ DOMAIN regionMap # {}

\* C19 as claimed: whenever the region map is empty GetHeadroom returns
\* total_cpus - reserve pool size.
C19_EmptyMapHeadroomAlways ==
  DOMAIN regionMap = {} =>
    GetHeadroom(regionMap, nonBindingNumas, poolEntries)
      = [err |-> FALSE, value |-> NumCPUs - ReservePoolSize]

\* C19 amended: with the region map empty GetHeadroom returns total_cpus -
\* reserve pool size when the reserve pool is in MetaCache -- so it does
\* after the cycle that deleted the region of a pool whose last container
\* was removed -- and an error when the reserve pool is not in MetaCache.
C19_EmptyMapHeadroom ==
  DOMAIN regionMap = {} =>
    IF PoolNameReserve \in DOMAIN poolEntries
    THEN GetHeadroom(regionMap, nonBindingNumas, poolEntries)
           = [err |-> FALSE, value |-> NumCPUs - ReservePoolSize]
    ELSE GetHeadroom(regionMap, nonBindingNumas, poolEntries).err

\* a cycle has deleted the share region of a pool that still names it, and
\* GetHeadroom returns total_cpus - reserve pool size
C19_Witness ==
  /\ CycleAssigned
  /\ DOMAIN regionMap = {}
  /\ PoolNameReserve \in DOMAIN poolEntries
  /\ \E p \in DOMAIN poolEntries : poolEntries[p].RegionNames # {}
  /\ GetHeadroom(regionMap, nonBindingNumas, poolEntries).value
       = NumCPUs - ReservePoolSize

\* A cycle is started with the reserve pool and no container in MetaCache.
EmptyNodeCycle ==
  /\ UpdateStep
  /\ PoolNameReserve \in DOMAIN poolEntries
  /\ DOMAIN containerEntries = {}

\* C20 as claimed: a cycle over the reserve pool and no containers creates
\* no region and sends no plan.
C20_EmptyNodeSendsNothing ==
  [][EmptyNodeCycle =>
       /\ DOMAIN regionMap' = {}
       /\ sendCh' = NoPlan
       /\ pc' = "select"]_vars

\* C20 amended: a cycle over the reserve pool and no containers creates no
\* region (and deletes the regions there were).  Inside the startup window
\* it sends no plan; after the window it sends the plan of the empty node:
\* the reserve pool entry and PoolEntries[reclaim][-1] = total_cpus minus the
\* reserve pool size, and no share entry.
C20_EmptyNodePlan ==
  [][EmptyNodeCycle =>
       /\ DOMAIN regionMap' = {}
       /\ regionEntries' = EmptyMap
       /\ InWindow => (sendCh' = NoPlan /\ pc' = "select")
       /\ ~InWindow =>
            /\ pc' = "send"
            /\ sendCh' = [PoolEntries |->
                            (PoolNameReserve :> (FakedNumaID :> ReservePoolSize))
                            @@ (PoolNameReclaim :>
                                  (FakedNumaID :> NumCPUs - ReservePoolSize))]]_vars

\* after the startup window a cycle without containers deleted the last
\* region and has the plan of the empty node on the channel
C20_Witness ==
  /\ cycle = "sending"
  /\ DOMAIN containerEntries = {}
  /\ DOMAIN regionMap = {}
  /\ sendCh # NoPlan
  /\ \E p \in DOMAIN poolEntries : poolEntries[p].RegionNames # {}

\* Run is inside update(): between the receipt of a trigger and the return
\* of the cycle it started.
InCycle == pc \in {"lock", "clear", "assign", "send"}

\* C15: update cycles never overlap and triggers are handed over one by one:
\* a cycle begins only from Run's select, with exactly one blocked sender
\* released; a sender is released only by the beginning of a cycle; and a
\* sender blocked while a cycle is in progress stays blocked in every step
\* of that cycle.
C15_CyclesDoNotOverlap ==
  [][/\ (pc' = "lock" /\ pc # "lock") =>
          /\ pc = "select"
          /\ \E s \in Senders :
               /\ trigger[s] = "blocked"
               /\ trigger' = [trigger EXCEPT ![s] = "delivered"]
     /\ \A s \in Senders :
          (trigger[s] = "blocked" /\ trigger'[s] # "blocked") =>
            /\ pc = "select"
            /\ pc' = "lock"
            /\ trigger'[s] = "delivered"
     /\ \A s \in Senders :
          (InCycle /\ trigger[s] = "blocked") => trigger'[s] = "blocked"]_vars

\* one trigger's cycle is in progress, holding the lock, while another
\* sender is blocked on the trigger channel
C15_Witness ==
  /\ pc \in {"clear", "assign", "send"}
  /\ mutex.writer
  /\ \E s, t \in Senders : trigger[s] = "delivered" /\ trigger[t] = "blocked"

\* C17 as claimed: once the context is cancelled Run eventually returns.
C17_CancelLeadsToReturn == ctxDone ~> (pc = "returned")

\* C17 amended: once the context is cancelled Run eventually returns or is
\* blocked for ever in the send of a plan the CPU server no longer receives.
C17_ReturnsUnlessSendStuck ==
  ctxDone ~> (pc = "returned" \/ (pc = "send" /\ server = "stopped"))

\* Run has returned after a cancellation that found a cycle in progress
C17_Witness ==
  /\ pc = "returned"
  /\ ctxDone
  /\ cancelledAt \in {"lock", "clear", "assign", "send"}

\* C18: GetHeadroom holds its reader lock only while no cycle holds the
\* writer lock; it reads while Run is outside the locked part of update(),
\* a region map in which no region is cleared; and the region map and the
\* non-binding NUMA set change only under the writer lock with no reader in.
C18_ReadersExcluded ==
  [][/\ \A g \in Readers :
          reader[g] = "rlocked" =>
            /\ ~mutex.writer
            /\ pc \in {"select", "lock", "returned"}
     /\ \A g \in Readers :
          (reader[g] = "rlocked" /\ reader'[g] = "done") =>
            \A n \in DOMAIN regionMap : regionMap[n].podSet # {}
     /\ (regionMap' # regionMap \/ nonBindingNumas' # nonBindingNumas) =>
          /\ mutex.writer
          /\ mutex.readers = {}]_vars

\* two GetHeadroom calls hold the reader lock over a region map made by an
\* earlier cycle while the next cycle waits for the writer lock
C18_Witness ==
  /\ pc = "lock"
  /\ \A g \in Readers : reader[g] = "rlocked"
  /\ mutex.readers = Readers
  /\ DOMAIN regionMap # {}

\* The sum of the PoolEntries[reclaim] entries of plan p.
ReclaimSum(p) ==
  SumOver(DOMAIN p.PoolEntries[PoolNameReclaim], p.PoolEntries[PoolNameReclaim])

\* GetHeadroom has what it needs: the reserve pool and a headroom of every
\* region.
HeadroomReadable ==
  /\ PoolNameReserve \in DOMAIN poolEntries
  /\ \A n \in DOMAIN regionMap : regionMap[n].headroomOk

\* C21: with regions but no share region in the region map GetHeadroom
\* returns the sum of the regions' headroom plus the headroom of the
\* non-binding NUMAs, and that is the sum of the PoolEntries[reclaim] entries
\* of the plan assembled from the same state.
C21_NoShareHeadroom ==
  (DOMAIN regionMap # {} /\ ShareRegions = {} /\ HeadroomReadable) =>
    LET h == GetHeadroom(regionMap, nonBindingNumas, poolEntries)
    IN /\ ~h.err
       /\ h.value =
            SumOver(DOMAIN regionMap,
                    [n \in DOMAIN regionMap |-> regionMap[n].headroom])
              + Cardinality(nonBindingNumas) * CPUsPerNuma
              - CeilDiv(ReservePoolSize * Cardinality(nonBindingNumas), NumNUMANodes)
       /\ ~SomeProvisionFailed(regionMap) =>
            \A order \in Orders(DOMAIN regionMap) :
              h.value = ReclaimSum(assembleProvision(regionMap, nonBindingNumas,
                                                     order).plan)

\* scenario S3 after its plan was received: one dedicated region on NUMA 0
\* with headroom 0, and GetHeadroom returns 0 + 7
C21_Witness ==
  /\ cycle = "done"
  /\ enableReclaim
  /\ HeadroomReadable
  /\ \E n \in DOMAIN regionMap :
       /\ DOMAIN regionMap = {n}
       /\ regionMap[n].Type = QoSRegionTypeDedicatedNumaExclusive
       /\ regionMap[n].bindingNumas = {0}
       /\ regionMap[n].headroom = 0
  /\ GetHeadroom(regionMap, nonBindingNumas, poolEntries).value = 7

\* Scenario S2: the region map is one share region of pool share, bound to
\* both NUMAs, holding the container that requests 3 CPUs.
S2RegionMap ==
  \E n \in DOMAIN regionMap :
    /\ DOMAIN regionMap = {n}
    /\ regionMap[n].Type = QoSRegionTypeShare
    /\ regionMap[n].OwnerPoolName = PoolNameShare
    /\ regionMap[n].bindingNumas = systemNumas
    /\ regionMap[n].podSet = {"s1"}

\* The plan of scenario S2.
S2Plan ==
  [PoolEntries |->
     (PoolNameReserve :> (FakedNumaID :> 2))
       @@ (PoolNameShare :> (FakedNumaID :> 3))
       @@ (PoolNameReclaim :> (FakedNumaID :> 11))]

\* A cycle after the startup window has run on the inputs of scenario S2 and
\* has its plan on the send channel.
S2Sending ==
  /\ cycle = "sending"
  /\ enableReclaim
  /\ DOMAIN containerEntries = {"s1"}

\* The plan of a cycle over the region map of scenario S2 was received and
\* the cycle has updated the headroom.
S2Done == cycle = "done" /\ enableReclaim /\ S2RegionMap

C23_ContainerNamesInPoolNames ==
  CycleAssigned =>
    \A c \in DOMAIN containerEntries :
      (QoSLevel(c) = "shared_cores" /\ OwnerPoolName(c) \in DOMAIN poolEntries) =>
        containerEntries[c].RegionNames
          \subseteq poolEntries[OwnerPoolName(c)].RegionNames

\* a cycle has assigned two shared_cores containers of two pools, each pool
\* naming the region of its container
C23_Witness ==
  /\ CycleAssigned
  /\ \E c, d \in DOMAIN containerEntries :
       /\ c # d
       /\ QoSLevel(c) = "shared_cores" /\ QoSLevel(d) = "shared_cores"
       /\ OwnerPoolName(c) \in DOMAIN poolEntries
       /\ OwnerPoolName(d) \in DOMAIN poolEntries
       /\ containerEntries[c].RegionNames # {}
       /\ containerEntries[d].RegionNames # {}
       /\ containerEntries[c].RegionNames # containerEntries[d].RegionNames
       /\ containerEntries[c].RegionNames \subseteq DOMAIN regionMap

\* The step changes the headroom of a region that stays in the region map.
HeadroomUpdated ==
  \E n \in DOMAIN regionMap \cap DOMAIN regionMap' :
    \/ regionMap'[n].headroomOk # regionMap[n].headroomOk
    \/ regionMap'[n].headroom # regionMap[n].headroom

\* C25: whenever a cycle runs TryUpdateHeadroom (the step that completes the
\* send, and the only step that changes a region's headroom), the region
\* entries published in MetaCache are those of this cycle: one entry per
\* region left after gc, with the region's type, binding NUMAs and the
\* control knob this cycle computed.
C25_EntriesBeforeHeadroom ==
  [][((pc = "send" /\ pc' = "select") \/ HeadroomUpdated) =>
       /\ pc = "send" /\ cycle' = "done"
       /\ regionEntries = EntriesOf(regionMap)
       /\ regionEntries' = regionEntries
       /\ \A n \in DOMAIN regionMap :
            /\ regionMap[n].podSet # {}
            /\ regionMap[n].provisionOk
            /\ regionMap[n].knob = CanonicalKnob(regionMap[n])
            /\ regionMap'[n].headroomOk]_vars

\* a cycle has sent its plan and updated the headroom of its two regions,
\* whose entries are published
C25_Witness ==
  /\ cycle = "done"
  /\ Cardinality(DOMAIN regionMap) = 2
  /\ regionEntries = EntriesOf(regionMap)
  /\ \A n \in DOMAIN regionMap : regionMap[n].headroomOk

\* The container sets of the regions of region map rm, by region name.
PodSetsOf(rm) == [n \in DOMAIN rm |-> rm[n].podSet]

\* C26: reassignment is idempotent.  In a state that ends a cycle without
\* error (MetaCache is as that cycle left it) the assignment of one more
\* cycle, in whatever order it ranges the containers, collects no error and
\* gives the same region names with the same container sets; and a cycle
\* that follows a startup cycle with no step in between leaves region names
\* and container sets as they were.
C26_ReassignmentIdempotent ==
  /\ [](CyclePublished =>
          \A order \in Orders(DOMAIN containerEntries) :
            LET a == assignContainersToRegions(regionMap, containerEntries,
                                               poolEntries, NamesInUse, order)
            IN /\ ~a.err
               /\ PodSetsOf(a.rm) = PodSetsOf(regionMap)
               /\ a.cs = containerEntries
               /\ a.ps = poolEntries)
  /\ [][(UpdateStep /\ cycle = "startup") =>
          /\ cycle' \in {"startup", "entries_err"}
          /\ PodSetsOf(regionMap') = PodSetsOf(regionMap)
          /\ UNCHANGED <<containerEntries, poolEntries>>]_vars

\* a cycle without error has assigned two containers again to the two
\* regions an earlier cycle created for them and sent a plan for
C26_Witness ==
  /\ cycle = "sending"
  /\ Cardinality(DOMAIN regionMap) = 2
  /\ \A n \in DOMAIN regionMap : regionMap[n].headroomOk
  /\ \A c \in DOMAIN containerEntries :
       /\ containerEntries[c].RegionNames # {}
       /\ containerEntries[c].RegionNames \subseteq DOMAIN regionMap

\* PoolEntries[share][-1] of plan p, 0 when the plan has no share entry.
ShareQuantity(p) ==
  IF PoolNameShare \in DOMAIN p.PoolEntries
  THEN p.PoolEntries[PoolNameShare][FakedNumaID]
  ELSE 0

\* C27 as claimed: in every plan on the send channel the share pool, the
\* reclaim pool of the non-binding NUMAs and the reserve share of the
\* non-binding NUMAs add up to the CPUs of the non-binding NUMAs, whatever
\* the number of share regions.
C27_CpuConservation ==
  sendCh # NoPlan =>
    ShareQuantity(sendCh)
      + sendCh.PoolEntries[PoolNameReclaim][FakedNumaID]
      + CeilDiv(ReservePoolSize * Cardinality(nonBindingNumas), NumNUMANodes)
    = Cardinality(nonBindingNumas) * CPUsPerNuma

SharedCycleAfterStartup ==
  /\ UpdateStep
  /\ ~InWindow
  /\ PoolNameReserve \in DOMAIN poolEntries
  /\ \E c \in DOMAIN containerEntries : QoSLevel(c) = "shared_cores"
  /\ \A c \in DOMAIN containerEntries :
       /\ QoSLevel(c) = "shared_cores" => OwnerPoolName(c) \in DOMAIN poolEntries
       /\ IsNumaBinding(c) => ~LookupFails(c)

\* C29 as claimed: the advisor is not wedged by its own gc.  A cycle after
\* the startup window, with the reserve pool and the owner pools present,
\* collects no assignment error, puts every shared_cores container in a
\* region and, unless a region's provision fails, sends a plan -- also when
\* an earlier cycle deleted the share region the pool names.
C29_GcDoesNotWedge ==
  [][SharedCycleAfterStartup =>
       /\ cycle' \in {"sending", "entries_err", "provision_err"}
       /\ \A c \in DOMAIN containerEntries :
            QoSLevel(c) = "shared_cores" =>
              \E n \in DOMAIN regionMap' : c \in regionMap'[n].podSet]_vars

\* C30 as claimed: every call of GetHeadroom returns in the end, also a call
\* made while a cycle is in progress whose plan the CPU server never
\* receives.
C30_GetHeadroomReturns ==
  (reader["g1"] = "waiting") ~> (reader["g1"] = "done")

====
